---- MODULE Spec2Model ----
(***************************************************************************)
(* Model of the town-name action (nml/actions/actionF.py), of the NFO text *)
(* output handle (nml/output_nfo.py) and of the reduction of function      *)
(* calls (nml/expression/functioncall.py): the id allocator, the           *)
(* cross-block random-bit allocation of ActionF.prepare_output, the        *)
(* declare-the-size-then-write protocol of ActionF.write, the frames of    *)
(* the handle, FunctionCall.reduce and its builtin functions.              *)
(***************************************************************************)
EXTENDS Integers, Sequences, FiniteSets, TLC

VARIABLES
    free_numbers,       \* actionF.free_numbers: set of free ids
    first_free_id,      \* actionF.first_free_id: scan cursor
    named_numbers,      \* actionF.named_numbers: name -> id
    numbered_numbers,   \* actionF.numbered_numbers: set of safe user ids
    town_names_blocks,  \* actionF.town_names_blocks: id -> ActionF (index into actions)
    actions,            \* the ActionF objects on which prepare_output ran, in order
    unsafe_numbers,     \* user-chosen ids taken from free_numbers, block not yet prepared
    handle,             \* the OutputNFO object
    written,            \* index in actions of the last block the driver wrote
    result,             \* outcome of the last operation
    allocated,          \* history: ids returned by get_free_id, in call order
    ncalls,             \* history: number of get_free_id calls made
    trace,              \* history: per prepare_output call, outcome and start bit
    hlog,               \* history: start index of the handle, where each frame begins
                        \* in the file, the last method called on the handle
    measured,           \* history: the last answer of the length calculator
    expr                \* the expression being reduced and the outcome of reduce

vars == <<free_numbers, first_free_id, named_numbers, numbered_numbers,
          town_names_blocks, actions, unsafe_numbers, handle, written,
          result, allocated, ncalls, trace, hlog, measured, expr>>


----------------------------------------------------------------------------
(* Bounds of the model *)

MaxBlocks == 3          \* prepare_output calls in one run
MaxFrames == 2          \* blocks prepared in a run that writes them
MaxOverrun == 2         \* get_free_id calls explored once the cursor passed the id space

UserIds == {1}              \* ids a user may choose for a numbered block
WriteUserIds == {127}       \* the same, in runs that write the blocks
AllocUserIds == {0, 1, 3, 127}  \* the same, in runs of the allocator alone
Names == {"a"}              \* identifiers a user may choose for a named block
StartSpriteNums == {0}  \* start_sprite_num values given to OutputNFO
MaxArgs == 2            \* arguments of a function call
MaxStrings == 1         \* print_string calls in one frame, in runs of the handle alone
HandleStartNums == {0, 5}   \* start_sprite_num values, in runs of the handle alone
FrameSizes == {2, 6}        \* sizes declared for a frame, in runs of the handle alone

----------------------------------------------------------------------------
(* Program constants *)

total_numbers == 128
RandomBits == 32
DefaultLang == 127
ActionType == 15
StyleFlag == 128

None == -1              \* Python None in an integer field
NoStyle == ""           \* style_name is None

----------------------------------------------------------------------------
(* Small helpers *)

Max(S) == CHOOSE m \in S : \A x \in S : x <= m
Min(S) == CHOOSE m \in S : \A x \in S : m <= x
EmptyMap == [x \in {} |-> 0]

----------------------------------------------------------------------------
(* Identity of a block: ActionF.name is None, an Identifier or a           *)
(* ConstantNumeric.                                                        *)

NoName == [kind |-> "None", value |-> "", num |-> None]
Identifier(v) == [kind |-> "Identifier", value |-> v, num |-> None]
ConstantNumeric(n) == [kind |-> "ConstantNumeric", value |-> "", num |-> n]

----------------------------------------------------------------------------
(* The id allocator: get_free_id                                           *)

\* scan_free with the limit test off by one: the last number is never reached
RECURSIVE scan_free_short(_, _)
scan_free_short(first, free) ==
    IF first \in free /\ first + 1 < total_numbers
    THEN [raised |-> FALSE, first |-> first]
    ELSE IF first + 1 >= total_numbers
         THEN [raised |-> TRUE, first |-> first + 1]
         ELSE scan_free_short(first + 1, free)

\* scan_free with 'if' in place of 'while': the cursor moves at most once
scan_free_once(first, free) ==
    IF first \in free
    THEN [raised |-> FALSE, first |-> first]
    ELSE IF first + 1 >= total_numbers
         THEN [raised |-> TRUE, first |-> first + 1]
         ELSE [raised |-> FALSE, first |-> first + 1]

\* scan_free that never consults free_numbers
scan_free_blind(first, free) ==
    IF first >= total_numbers
    THEN [raised |-> TRUE, first |-> first + 1]
    ELSE [raised |-> FALSE, first |-> first]

\* the while loop of get_free_id: advance the cursor to a free number, or
\* raise as soon as the cursor reaches total_numbers
RECURSIVE scan_free(_, _)
scan_free(first, free) ==
    IF first \in free
    THEN [raised |-> FALSE, first |-> first]
    ELSE IF first + 1 >= total_numbers
         THEN [raised |-> TRUE, first |-> first + 1]
         ELSE scan_free(first + 1, free)

\* get_free_id without the removal of the number from free_numbers
get_free_id_no_remove(first, free) ==
    LET s == scan_free(first, free)
    IN IF s.raised
       THEN [raised |-> TRUE, number |-> None,
             first_free_id |-> s.first, free_numbers |-> free]
       ELSE [raised |-> FALSE, number |-> s.first,
             first_free_id |-> s.first + 1, free_numbers |-> free]

get_free_id(first, free) ==
    LET s == scan_free(first, free)
    IN IF s.raised
       THEN [raised |-> TRUE, number |-> None,
             first_free_id |-> s.first, free_numbers |-> free]
       ELSE [raised |-> FALSE, number |-> s.first,
             first_free_id |-> s.first + 1, free_numbers |-> free \ {s.first}]

----------------------------------------------------------------------------
(* Strings (grfstrings). A text is a sequence of code points.              *)

utf8_len(c) == IF c < 128 THEN 1 ELSE IF c < 2048 THEN 2 ELSE 3

is_ascii_string(txt) == \A i \in 1..Len(txt) : txt[i] < 128

RECURSIVE encoded_len(_)
encoded_len(txt) ==
    IF txt = <<>> THEN 0 ELSE utf8_len(Head(txt)) + encoded_len(Tail(txt))

\* grfstrings.get_string_size: the final zero, the two bytes of the unicode
\* marker for a non-ascii text, and the encoded characters
get_string_size(txt, final_zero, force_ascii) ==
    IF ~is_ascii_string(txt) /\ force_ascii
    THEN [raised |-> TRUE, size |-> 0]
    ELSE [raised |-> FALSE,
          size |-> (IF final_zero THEN 1 ELSE 0)
                   + (IF is_ascii_string(txt) THEN 0 ELSE 2)
                   + encoded_len(txt)]

----------------------------------------------------------------------------
(* The translation service (grfstrings), for the style names of the model. *)

A_txt == <<97>>                 \* "a"
Quote_txt == <<34, 97>>         \* "\"a"
Uni_txt == <<233, 97>>          \* "éa"
Long_txt == <<97, 97, 97>>      \* "aaa"

StyleNames == {"STR_PLAIN", "STR_TWO", "STR_DEF"}

\* grfstrings.get_translations: the language ids a string is translated in
get_translations(style_name) ==
    CASE style_name = "STR_PLAIN" -> <<>>
      [] style_name = "STR_TWO"   -> <<3, 1>>
      [] style_name = "STR_DEF"   -> <<DefaultLang, 1>>
      [] OTHER                    -> <<>>

\* grfstrings.get_translation(string, lang_id), lang_id None for the default
get_translation(style_name, lang_id) ==
    CASE lang_id = 1 -> Quote_txt
      [] lang_id = 3 -> Uni_txt
      [] lang_id = DefaultLang -> Long_txt
      [] OTHER -> IF style_name = "STR_TWO" THEN A_txt ELSE Long_txt

----------------------------------------------------------------------------
(* The output handle: output_base.SpriteOutputBase and OutputNFO.          *)
(* file is the sequence of tokens written; error is the exception that     *)
(* left the handle's method, "" when none did.                             *)

Tok(t, n, s) == [t |-> t, n |-> n, s |-> s]

OutputNFO(start_sprite_num) ==
    [file |-> <<>>, sprite_num |-> start_sprite_num, in_sprite |-> FALSE,
     byte_count |-> 0, expected_count |-> 0, error |-> ""]

Raise(h, e) == [h EXCEPT !.error = e]
file_write(h, tok) == [h EXCEPT !.file = Append(@, tok)]

\* OutputBase.prepare_byte: value as an unsigned byte
byte_value(value) == IF -128 <= value /\ value < 0 THEN value + 256 ELSE value

prepare_byte(h, value) ==
    IF h.error # "" THEN h
    ELSE IF ~h.in_sprite THEN Raise(h, "AssertionError: in_sprite")
    ELSE IF byte_value(value) < 0 \/ byte_value(value) > 255
         THEN Raise(h, "AssertionError: byte range")
    ELSE [h EXCEPT !.byte_count = @ + 1]

print_bytex(h, value) ==
    LET p == prepare_byte(h, value)
    IN IF p.error # "" THEN p ELSE file_write(p, Tok("bytex", byte_value(value), <<>>))

print_decimal(h, value) ==
    IF h.error # "" THEN h
    ELSE IF ~h.in_sprite THEN Raise(h, "AssertionError: in_sprite")
    ELSE file_write(h, Tok("decimal", value, <<>>))

newline(h, msg) ==
    IF h.error # "" THEN h ELSE file_write(h, Tok("newline", 0, msg))

\* print_string without the correction for the byte counted by print_bytex
print_string_zero_twice(h, value, final_zero, force_ascii) ==
    IF h.error # "" THEN h
    ELSE IF ~h.in_sprite THEN Raise(h, "AssertionError: in_sprite")
    ELSE IF ~is_ascii_string(value) /\ force_ascii
         THEN Raise(file_write(h, Tok("quote", 0, <<>>)), "ScriptError: ascii")
    ELSE LET marked == IF is_ascii_string(value) THEN 0 ELSE 1
             w == file_write(h, Tok("string", marked, value))
             c == [w EXCEPT !.byte_count =
                        @ + get_string_size(value, final_zero, force_ascii).size]
         IN IF final_zero THEN print_bytex(c, 0) ELSE c

\* OutputNFO.print_string
print_string(h, value, final_zero, force_ascii) ==
    IF h.error # "" THEN h
    ELSE IF ~h.in_sprite THEN Raise(h, "AssertionError: in_sprite")
    ELSE IF ~is_ascii_string(value) /\ force_ascii
         THEN Raise(file_write(h, Tok("quote", 0, <<>>)), "ScriptError: ascii")
    ELSE LET marked == IF is_ascii_string(value) THEN 0 ELSE 1
             w == file_write(h, Tok("string", marked, value))
             c == [w EXCEPT !.byte_count =
                        @ + get_string_size(value, final_zero, force_ascii).size]
         IN IF final_zero
            THEN LET z == print_bytex(c, 0)
                 IN IF z.error # "" THEN z ELSE [z EXCEPT !.byte_count = @ - 1]
            ELSE c

\* SpriteOutputBase.start_sprite
base_start_sprite(h, expected_size) ==
    IF h.error # "" THEN h
    ELSE IF h.in_sprite THEN Raise(h, "AssertionError: not in_sprite")
    ELSE [h EXCEPT !.in_sprite = TRUE, !.expected_count = expected_size,
                   !.byte_count = 0]

\* start_sprite with the record counter left as it is
start_sprite_same_number(h, size, is_real_sprite) ==
    LET b == base_start_sprite(h, size)
        d == print_decimal(b, b.sprite_num)
    IN IF d.error # "" \/ is_real_sprite THEN d
       ELSE print_decimal(file_write(d, Tok("raw", 0, <<42>>)), size)

\* OutputNFO.start_sprite
start_sprite(h, size, is_real_sprite) ==
    LET b == base_start_sprite(h, size)
        d == print_decimal(b, b.sprite_num)
        n == IF d.error # "" THEN d ELSE [d EXCEPT !.sprite_num = @ + 1]
    IN IF n.error # "" \/ is_real_sprite THEN n
       ELSE print_decimal(file_write(n, Tok("raw", 0, <<42>>)), size)

\* SpriteOutputBase.end_sprite
end_sprite(h) ==
    IF h.error # "" THEN h
    ELSE IF ~h.in_sprite THEN Raise(h, "AssertionError: in_sprite")
    ELSE LET n == newline([h EXCEPT !.in_sprite = FALSE], <<>>)
         IN IF n.expected_count # n.byte_count
            THEN Raise(n, "AssertionError: expected_count")
            ELSE n

\* the keywords of output_nfo.zoom_levels and output_nfo.bit_depths
zoom_levels(z) ==
    CASE z = 0 -> <<110, 111, 114, 109, 97, 108>>     \* "normal"
      [] z = 1 -> <<122, 105, 52>>                     \* "zi4"
      [] z = 2 -> <<122, 105, 50>>                     \* "zi2"
      [] z = 3 -> <<122, 111, 50>>                     \* "zo2"
      [] z = 4 -> <<122, 111, 52>>                     \* "zo4"
      [] OTHER -> <<122, 111, 56>>                     \* "zo8"

bit_depths(d) ==
    IF d = 8 THEN <<56, 98, 112, 112>>                 \* "8bpp"
    ELSE <<51, 50, 98, 112, 112>>                      \* "32bpp"

Nocrop_txt == <<110, 111, 99, 114, 111, 112>>          \* "nocrop"
Bar_txt == <<124, 9>>                                  \* "|\t"
Mask_txt == <<109, 97, 115, 107>>                      \* " mask "
Stars_txt == <<42, 42>>                                \* "** "

\* a real sprite: mask_file <<>> and mask_pos <<>> stand for None
RealSprite(file, bit_depth, xpos, ypos, zoom_level, nocrop, mask_file, mask_pos) ==
    [file |-> file, bit_depth |-> bit_depth, xpos |-> xpos, ypos |-> ypos,
     xsize |-> 1, ysize |-> 1, xrel |-> 0, yrel |-> 0, zoom_level |-> zoom_level,
     nocrop |-> nocrop, mask_file |-> mask_file, mask_pos |-> mask_pos]

\* OutputNFO.print_sprite: the body of the loop, for one sprite
print_sprite_info(h, sprite_info, last) ==
    LET a == file_write(file_write(h, Tok("raw", 0, sprite_info.file)),
                        Tok("raw", 0, bit_depths(sprite_info.bit_depth)))
        b == print_decimal(print_decimal(print_decimal(print_decimal(
                print_decimal(print_decimal(a, sprite_info.xpos), sprite_info.ypos),
                sprite_info.xsize), sprite_info.ysize), sprite_info.xrel),
                sprite_info.yrel)
        c == file_write(b, Tok("raw", 0, zoom_levels(sprite_info.zoom_level)))
        d == IF sprite_info.nocrop THEN file_write(c, Tok("raw", 0, Nocrop_txt)) ELSE c
        mask == IF sprite_info.mask_pos # <<>> THEN sprite_info.mask_pos
                ELSE <<sprite_info.xpos, sprite_info.ypos>>
        e == IF sprite_info.mask_file = <<>> THEN d
             ELSE print_decimal(print_decimal(
                     file_write(file_write(file_write(newline(d, <<>>),
                         Tok("raw", 0, Bar_txt)),
                         Tok("raw", 0, sprite_info.mask_file)),
                         Tok("raw", 0, Mask_txt)),
                     mask[1]), mask[2])
    IN IF last THEN e ELSE file_write(newline(e, <<>>), Tok("raw", 0, Bar_txt))

RECURSIVE print_sprite_list(_, _)
print_sprite_list(h, sprite_list) ==
    IF sprite_list = <<>> THEN h
    ELSE print_sprite_list(
            print_sprite_info(h, Head(sprite_list), Len(sprite_list) = 1),
            Tail(sprite_list))

\* OutputNFO.print_sprite
print_sprite(h, sprite_list) ==
    LET s == start_sprite(h, 0, TRUE)
    IN IF s.error # "" THEN s ELSE end_sprite(print_sprite_list(s, sprite_list))

\* OutputNFO.print_empty_realsprite
print_empty_realsprite(h) ==
    end_sprite(print_bytex(start_sprite(h, 1, FALSE), 0))

\* print_named_filedata without the call of end_sprite
print_named_filedata_open(h, filename) ==
    LET s == start_sprite(h, 0, TRUE)
    IN IF s.error # "" THEN s
       ELSE file_write(s, Tok("raw", 0, Stars_txt \o filename))

\* OutputNFO.print_named_filedata
print_named_filedata(h, filename) ==
    LET s == start_sprite(h, 0, TRUE)
    IN IF s.error # "" THEN s
       ELSE end_sprite(file_write(s, Tok("raw", 0, Stars_txt \o filename)))

----------------------------------------------------------------------------
(* Town name parts (TownNamesPart): the number of pieces, the number of    *)
(* random bits the pieces need, the start bit assign_bits stored, and the  *)
(* serialized length.                                                      *)

Part(pieces, num_bits) ==
    [pieces |-> pieces, num_bits |-> num_bits, startbit |-> None]

OnePiece == Part(1, 1)
TwoPieces == Part(2, 1)
Half == Part(2, 16)
HalfPlus == Part(3, 17)

\* part.assign_bits(startbit): stores the start bit, returns the bit count
assign_bits(part, startbit) ==
    [part |-> [part EXCEPT !.startbit = startbit], num_bits |-> part.num_bits]

\* part.get_length(): count, first bit and bit count bytes, then the pieces
part_get_length(part) == 3 + 2 * part.pieces

RECURSIVE print_zeros(_, _)
print_zeros(h, n) == IF n = 0 THEN h ELSE print_zeros(print_bytex(h, 0), n - 1)

\* part.write(handle)
part_write(h, part) ==
    print_zeros(
        print_bytex(print_bytex(print_bytex(h, part.pieces), part.startbit),
                    part.num_bits),
        2 * part.pieces)

----------------------------------------------------------------------------
(* ActionF                                                                 *)

\* ActionF.__init__
ActionF(name, id_number, style_name, parts) ==
    [name |-> name, id_number |-> id_number, style_name |-> style_name,
     style_names |-> <<>>, parts |-> parts, free_bit |-> None]

\* the block registered although its name is in use
registers_duplicate(exhausted, duplicate) == ~exhausted

\* prepare_output gets as far as line 129, where the block is registered, when
\* neither get_free_id nor the test of the name raised
registers(exhausted, duplicate) == ~exhausted /\ ~duplicate

\* prepare_output allocates a number itself for an invisible or named block
allocates_number(name) == name.kind \in {"None", "Identifier"}

\* the test for a name in use left out
name_never_in_use(name, named) == FALSE

\* self.name.value in named_numbers
name_in_use(name, named) == name.value \in DOMAIN named

\* every part moves the running start bit
needs_own_bits_always(part) == part.pieces > 0

\* len(part.pieces) > 1: the running start bit moves past this part
needs_own_bits(part) == part.pieces > 1

\* the limit test with >= in place of >
not_enough_bits_inclusive(startbit) == startbit >= RandomBits

\* the limit test one bit late
not_enough_bits_late(startbit) == startbit > RandomBits + 1

\* startbit > 32
not_enough_bits(startbit) == startbit > RandomBits

\* the loop of prepare_output over self.parts: every part is assigned the
\* running start bit, which advances only past a part of several pieces
RECURSIVE assign_parts(_, _, _)
assign_parts(parts, i, startbit) ==
    IF i > Len(parts)
    THEN [parts |-> parts, startbit |-> startbit]
    ELSE LET a == assign_bits(parts[i], startbit)
         IN assign_parts([parts EXCEPT ![i] = a.part], i + 1,
                         IF needs_own_bits(parts[i]) THEN startbit + a.num_bits
                         ELSE startbit)

\* min in place of max
lowest_available_bit_min(blocks, objs) ==
    IF DOMAIN blocks = {} THEN 0
    ELSE Min({objs[blocks[i]].free_bit : i \in DOMAIN blocks})

\* every block starts at bit 0
lowest_available_bit_zero(blocks, objs) == 0

\* startbit of prepare_output: the lowest bit no registered block uses
lowest_available_bit(blocks, objs) ==
    IF DOMAIN blocks = {} THEN 0
    ELSE Max({objs[blocks[i]].free_bit : i \in DOMAIN blocks})

\* list.sort() on (lang_id, text) tuples
RECURSIVE TextLess(_, _)
TextLess(a, b) ==
    IF b = <<>> THEN FALSE
    ELSE IF a = <<>> THEN TRUE
    ELSE IF Head(a) # Head(b) THEN Head(a) < Head(b)
    ELSE TextLess(Tail(a), Tail(b))

PairLeq(x, y) == x[1] < y[1] \/ (x[1] = y[1] /\ ~TextLess(y[2], x[2]))

RECURSIVE insert_sorted(_, _)
insert_sorted(x, s) ==
    IF s = <<>> THEN <<x>>
    ELSE IF PairLeq(x, Head(s)) THEN <<x>> \o s
    ELSE <<Head(s)>> \o insert_sorted(x, Tail(s))

RECURSIVE sort(_)
sort(s) == IF s = <<>> THEN <<>> ELSE insert_sorted(Head(s), sort(Tail(s)))

\* pull_style_names without the default text appended under 0x7F
pull_style_names_no_default(style_name) ==
    LET langs == get_translations(style_name)
        found == [i \in 1..Len(langs) |->
                    <<langs[i], get_translation(style_name, langs[i])>>]
    IN sort(found)

\* pull_style_names without the sort of the table
pull_style_names_unsorted(style_name) ==
    LET langs == get_translations(style_name)
        found == [i \in 1..Len(langs) |->
                    <<langs[i], get_translation(style_name, langs[i])>>]
    IN Append(found, <<DefaultLang, get_translation(style_name, None)>>)

\* the style table of prepare_output: every translation, then the default
\* text under 0x7F, sorted
pull_style_names(style_name) ==
    LET langs == get_translations(style_name)
        found == [i \in 1..Len(langs) |->
                    <<langs[i], get_translation(style_name, langs[i])>>]
    IN sort(Append(found, <<DefaultLang, get_translation(style_name, None)>>))

\* ActionF.get_length_styles
RECURSIVE sum_styles(_)
sum_styles(style_names) ==
    IF style_names = <<>> THEN 0
    ELSE 1 + get_string_size(Head(style_names)[2], TRUE, FALSE).size
         + sum_styles(Tail(style_names))

\* the terminating 0 of the style table left out of the length
get_length_styles_unterminated(self) ==
    IF Len(self.style_names) = 0 THEN 0 ELSE sum_styles(self.style_names)

get_length_styles(self) ==
    IF Len(self.style_names) = 0 THEN 0 ELSE sum_styles(self.style_names) + 1

\* ActionF.get_length_parts
RECURSIVE sum_parts(_)
sum_parts(parts) ==
    IF parts = <<>> THEN 0 ELSE part_get_length(Head(parts)) + sum_parts(Tail(parts))

\* the length made to depend on the handle's record counter
get_length_parts_numbered(self) == handle.sprite_num + sum_parts(self.parts)

\* the byte holding the number of parts left out of the length
get_length_parts_uncounted(self) == sum_parts(self.parts)

get_length_parts(self) == 1 + sum_parts(self.parts)

\* ActionF.write_styles
RECURSIVE write_style_entries(_, _)
write_style_entries(h, style_names) ==
    IF style_names = <<>> THEN h
    ELSE write_style_entries(
            newline(print_string(print_bytex(h, Head(style_names)[1]),
                                 Head(style_names)[2], TRUE, FALSE), <<>>),
            Tail(style_names))

write_styles(self, h) ==
    IF Len(self.style_names) = 0 THEN h
    ELSE newline(print_bytex(write_style_entries(h, self.style_names), 0), <<>>)

\* ActionF.write_parts
RECURSIVE write_part_entries(_, _)
write_part_entries(h, parts) ==
    IF parts = <<>> THEN h
    ELSE write_part_entries(newline(part_write(h, Head(parts)), <<>>), Tail(parts))

write_parts(self, h) ==
    write_part_entries(print_bytex(h, Len(self.parts)), self.parts)

\* the style flag never set
or_style_flag_off(n) == n

\* id_number | 0x80
or_style_flag(n) == IF (n \div StyleFlag) % 2 = 1 THEN n ELSE n + StyleFlag

name_comment(name) ==
    IF name.kind = "None" THEN <<>>
    ELSE IF name.kind = "Identifier" THEN <<1>> ELSE <<2>>

\* write with the parts table written before the style table
write_parts_first(self, h) ==
    LET s0 == start_sprite(h, 2 + get_length_styles(self) + get_length_parts(self),
                           FALSE)
        s1 == print_bytex(s0, ActionType)
        s2 == print_bytex(s1, IF Len(self.style_names) > 0
                              THEN or_style_flag(self.id_number)
                              ELSE self.id_number)
        s3 == newline(s2, name_comment(self.name))
    IN end_sprite(write_styles(self, write_parts(self, s3)))

\* ActionF.write
write(self, h) ==
    LET s0 == start_sprite(h, 2 + get_length_styles(self) + get_length_parts(self),
                           FALSE)
        s1 == print_bytex(s0, ActionType)
        s2 == print_bytex(s1, IF Len(self.style_names) > 0
                              THEN or_style_flag(self.id_number)
                              ELSE self.id_number)
        s3 == newline(s2, name_comment(self.name))
    IN end_sprite(write_parts(self, write_styles(self, s3)))

----------------------------------------------------------------------------
(* Expressions (nml/expression/functioncall.py). An expression is a record *)
(* of its class (kind) and fields; Identifier and ConstantNumeric are the  *)
(* records above. reduce gives [error, value]: error "" when it returned   *)
(* value, the message of the ScriptError when it raised.                   *)

StringLiteral(s) == [kind |-> "StringLiteral", value |-> s, num |-> None]

FunctionCall(name, params) ==
    [kind |-> "FunctionCall", value |-> name, num |-> None, params |-> params]

BinOp(op, expr1, expr2) ==
    [kind |-> "BinOp", value |-> op, num |-> None, params |-> <<expr1, expr2>>]

\* a function pointer held by an identifier dictionary
FunctionPtr(name) == [kind |-> "FunctionPtr", value |-> name, num |-> None]

\* to_string holds the arguments of the format: the name, the expression
\* whose str() is shown as label, the mask shown (None when left out)
SpecialCheck(op, varnum, results, value, to_string, mask) ==
    [kind |-> "SpecialCheck", value |-> "", num |-> value, op |-> op,
     varnum |-> varnum, results |-> results, to_string |-> to_string,
     mask |-> mask]

Returned(e) == [error |-> "", value |-> e]
ScriptError(msg) == [error |-> msg, value |-> <<>>]

\* the identifier dictionaries of a script: a constant, a user-defined function
id_dicts == ("known" :> ConstantNumeric(7)) @@ ("userf" :> FunctionPtr("userf"))
no_dicts == [x \in {} |-> 0]

\* parameter.parse_string_to_dword, on the string literals of the model
parse_string_to_dword(e) ==
    IF e.kind # "StringLiteral" THEN ScriptError("not a string literal")
    ELSE Returned(IF e.value = "AAAA" THEN 1094795585 ELSE 1111638594)

function_table ==
    {"min", "max", "day_of_year", "grf_current_status", "grf_future_status",
     "grf_order_behind"}

RECURSIVE reduce(_, _, _)
RECURSIVE reduce_all(_, _, _)
RECURSIVE fold_binop(_, _, _)

\* reduce(lambda x, y: BinOp(op, x, y, pos), args)
fold_binop(op, acc, args) ==
    IF args = <<>> THEN acc
    ELSE fold_binop(op, BinOp(op, acc, Head(args)), Tail(args))

\* builtin_min, builtin_max
builtin_min(name, args) ==
    IF Len(args) < 2 THEN ScriptError("requires at least 2 arguments")
    ELSE Returned(fold_binop(IF name = "min" THEN "MIN" ELSE "MAX",
                             Head(args), Tail(args)))

\* the number of days of a month, February having 28
number_days(month) ==
    IF month = 2 THEN 28 ELSE IF month \in {4, 6, 9, 11} THEN 30 ELSE 31

\* datetime.date(1, month, day).toordinal(): year 1 has 365 days and starts
\* at ordinal 1
RECURSIVE date_toordinal(_, _)
date_toordinal(month, day) ==
    IF month = 1 THEN day ELSE number_days(month - 1) + date_toordinal(month - 1, day)

\* builtin_day_of_year: line 178 reads the day from args[0], the month
builtin_day_of_year(name, args) ==
    IF Len(args) # 2 THEN ScriptError("must have a month and a day parameter")
    ELSE LET month == reduce(args[1], no_dicts, TRUE)
             day == reduce(args[1], no_dicts, TRUE)
         IN IF month.error # "" THEN ScriptError(month.error)
            ELSE IF month.value.kind # "ConstantNumeric"
                 THEN ScriptError("Month should be a compile-time constant.")
            ELSE IF month.value.num < 1 \/ month.value.num > 12
                 THEN ScriptError("Month should be a value between 1 and 12.")
            ELSE IF day.error # "" THEN ScriptError(day.error)
            ELSE IF day.value.kind # "ConstantNumeric"
                 THEN ScriptError("Day should be a compile-time constant.")
            ELSE IF day.value.num < 1 \/ day.value.num > number_days(month.value.num)
                 THEN ScriptError("Day should be value between 1 and the days of the month.")
            ELSE Returned(ConstantNumeric(
                    date_toordinal(month.value.num, day.value.num)))

\* builtin_grf_status: label is the variable of the list comprehension of
\* line 270, which after the comprehension holds the last element of args
builtin_grf_status(name, args) ==
    IF Len(args) \notin {1, 2} THEN ScriptError("must have 1 or 2 parameters")
    ELSE LET labels == reduce_all(args, no_dicts, TRUE)
             label == args[Len(args)]
             mask == IF Len(args) > 1 THEN parse_string_to_dword(labels.value[2])
                     ELSE Returned(None)
             op == IF name = "grf_current_status" THEN 6
                   ELSE IF name = "grf_future_status" THEN 10 ELSE 8
             results == IF name = "grf_current_status" THEN <<1, 0>> ELSE <<0, 1>>
             value == parse_string_to_dword(labels.value[1])
             string == [name |-> name, label |-> label, mask |-> mask.value]
         IN IF labels.error # "" THEN ScriptError(labels.error)
            ELSE IF mask.error # "" THEN ScriptError(mask.error)
            ELSE IF value.error # "" THEN ScriptError(value.error)
            ELSE Returned(SpecialCheck(op, 136, results, value.value, string,
                                       mask.value))

\* the reduction of a list of expressions, in order, up to the first that raises
reduce_all(params, dicts, unknown_id_fatal) ==
    IF params = <<>> THEN Returned(<<>>)
    ELSE LET first == reduce(Head(params), dicts, unknown_id_fatal)
             rest == reduce_all(Tail(params), dicts, unknown_id_fatal)
         IN IF first.error # "" THEN ScriptError(first.error)
            ELSE IF rest.error # "" THEN ScriptError(rest.error)
            ELSE Returned(<<first.value>> \o rest.value)

\* Identifier.reduce(id_dicts, unknown_id_fatal)
identifier_reduce(self, dicts, unknown_id_fatal) ==
    IF self.value \in DOMAIN dicts THEN Returned(dicts[self.value])
    ELSE IF unknown_id_fatal THEN ScriptError("Unrecognized identifier")
    ELSE Returned(self)

\* BinOp.reduce: both operands reduced, two constants folded
binop_reduce(self, dicts, unknown_id_fatal) ==
    LET both == reduce_all(self.params, dicts, unknown_id_fatal)
    IN IF both.error # "" THEN ScriptError(both.error)
       ELSE IF \A i \in 1..2 : both.value[i].kind = "ConstantNumeric"
            THEN Returned(ConstantNumeric(
                    IF self.value = "MIN"
                    THEN Min({both.value[1].num, both.value[2].num})
                    ELSE Max({both.value[1].num, both.value[2].num})))
       ELSE Returned(BinOp(self.value, both.value[1], both.value[2]))

\* func_ptr.call(param_list): the user-defined function applied to its arguments
func_ptr_call(func_ptr, param_list) ==
    [kind |-> "Applied", value |-> func_ptr.value, num |-> None,
     params |-> param_list]

\* FunctionCall.reduce
functioncall_reduce(self, dicts, unknown_id_fatal) ==
    LET param_list == reduce_all(self.params, dicts, unknown_id_fatal)
        val == IF self.value \in {"min", "max"}
               THEN builtin_min(self.value, param_list.value)
               ELSE IF self.value = "day_of_year"
               THEN builtin_day_of_year(self.value, param_list.value)
               ELSE builtin_grf_status(self.value, param_list.value)
        func_ptr == identifier_reduce(Identifier(self.value), dicts, FALSE).value
    IN IF param_list.error # "" THEN ScriptError(param_list.error)
       ELSE IF self.value \in function_table
            THEN IF val.error # "" THEN ScriptError(val.error)
                 ELSE reduce(val.value, dicts, TRUE)
       ELSE IF func_ptr # Identifier(self.value)
            THEN IF func_ptr.kind # "FunctionPtr"
                 THEN ScriptError("is defined, but it is not a function")
                 ELSE Returned(func_ptr_call(func_ptr, param_list.value))
       ELSE IF unknown_id_fatal THEN ScriptError("is not defined as a function")
       ELSE Returned(FunctionCall(self.value, param_list.value))

reduce(e, dicts, unknown_id_fatal) ==
    CASE e.kind = "Identifier" -> identifier_reduce(e, dicts, unknown_id_fatal)
      [] e.kind = "BinOp" -> binop_reduce(e, dicts, unknown_id_fatal)
      [] e.kind = "FunctionCall" -> functioncall_reduce(e, dicts, unknown_id_fatal)
      [] OTHER -> Returned(e)

----------------------------------------------------------------------------
(* Inputs of the model: the blocks a script may declare                    *)

PartLists ==
    {<<OnePiece>>, <<TwoPieces>>, <<OnePiece, OnePiece>>, <<TwoPieces, OnePiece>>,
     <<Half, Half>>, <<Half, HalfPlus>>}

\* texts given to print_string, file names and sprite lists given to the handle
Texts == {A_txt, Uni_txt}
FileNames == {<<102>>}
SpriteLists ==
    {<<RealSprite(<<102>>, 8, 0, 0, 0, FALSE, <<>>, <<>>)>>,
     <<RealSprite(<<102>>, 8, 2, 3, 0, TRUE, <<109>>, <<>>),
       RealSprite(<<102>>, 32, 2, 3, 1, FALSE, <<109>>, <<4, 5>>)>>}

\* the function calls a script may hold: the names called, the arguments
FunctionNames == function_table \cup {"userf", "known", "undefined"}
Atoms ==
    {ConstantNumeric(1), Identifier("known"), Identifier("unknown"),
     StringLiteral("AAAA"), StringLiteral("BBBB"),
     FunctionCall("undefined", <<ConstantNumeric(1)>>)}
ArgLists == UNION {[1..n -> Atoms] : n \in 0..MaxArgs}
Calls == {FunctionCall(name, params) : name \in FunctionNames, params \in ArgLists}

\* the calls of day_of_year on two constants, in and out of range
Months == 0..13
Days == 0..32
DateCalls ==
    {FunctionCall("day_of_year", <<ConstantNumeric(month), ConstantNumeric(day)>>) :
        month \in Months, day \in Days}

\* blocks without style name, of every part list
PlainShapes == {[style_name |-> NoStyle, parts |-> p] : p \in PartLists}

\* blocks with a style name
StyledShapes == {[style_name |-> st, parts |-> <<OnePiece>>] : st \in StyleNames}

\* the blocks of the runs that write them
Shapes ==
    StyledShapes
    \cup {[style_name |-> NoStyle, parts |-> p] :
            p \in {<<OnePiece>>, <<TwoPieces, OnePiece>>, <<Half, HalfPlus>>}}

\* the blocks of the runs that mix them with sprites
FrameShapes ==
    {[style_name |-> "STR_TWO", parts |-> <<OnePiece>>],
     [style_name |-> NoStyle, parts |-> <<TwoPieces, OnePiece>>]}

----------------------------------------------------------------------------
(* History of the calls made on the handle                                 *)

Called(op, text, final_zero, force_ascii) ==
    [op |-> op, text |-> text, final_zero |-> final_zero,
     force_ascii |-> force_ascii]

NewLog(h) ==
    [start |-> h.sprite_num, frames |-> <<>>,
     call |-> Called("none", <<>>, FALSE, FALSE)]

\* the log after a call that took the handle from h to n: a frame was opened
\* when the call got past the assertion of SpriteOutputBase.start_sprite
Opened(log, h, n, call) ==
    [log EXCEPT !.call = call,
                !.frames = IF Len(n.file) > Len(h.file)
                           THEN Append(@, Len(h.file) + 1) ELSE @]

\* the log after a call that opens no frame
Logged(log, call) == [log EXCEPT !.call = call]

NotMeasured == [block |-> 0, styles |-> 0, parts |-> 0]

NoExpression == [input |-> <<>>, unknown_id_fatal |-> FALSE, status |-> "none",
                 output |-> <<>>]

----------------------------------------------------------------------------
(* State machine                                                           *)

\* the state of a run that starts with the handle h and the expression e
Start(h, e) ==
    /\ free_numbers = 0..(total_numbers - 1)
    /\ first_free_id = 0
    /\ named_numbers = EmptyMap
    /\ numbered_numbers = {}
    /\ town_names_blocks = EmptyMap
    /\ actions = <<>>
    /\ unsafe_numbers = {}
    /\ handle = h
    /\ written = 0
    /\ result = "none"
    /\ allocated = <<>>
    /\ ncalls = 0
    /\ trace = <<>>
    /\ hlog = NewLog(h)
    /\ measured = NotMeasured
    /\ expr = e

Init == \E n \in StartSpriteNums : Start(OutputNFO(n), NoExpression)

\* a call of get_free_id on its own
AllocateId ==
    /\ first_free_id < total_numbers + MaxOverrun
    /\ LET g == get_free_id(first_free_id, free_numbers)
       IN /\ first_free_id' = g.first_free_id
          /\ free_numbers' = g.free_numbers
          /\ ncalls' = ncalls + 1
          /\ allocated' = IF g.raised THEN allocated ELSE Append(allocated, g.number)
          /\ result' = IF g.raised THEN "ResourceExhausted" ELSE "ok"
    /\ UNCHANGED <<named_numbers, numbered_numbers, town_names_blocks, actions,
                   unsafe_numbers, handle, written, trace, hlog, measured, expr>>

\* a numbered town_names block is declared: its id leaves free_numbers, it is
\* an 'unsafe numbered' id until the block's prepare_output
DeclareNumbered(n) ==
    /\ n \in free_numbers
    /\ free_numbers' = free_numbers \ {n}
    /\ unsafe_numbers' = unsafe_numbers \cup {n}
    /\ result' = "ok"
    /\ UNCHANGED <<first_free_id, named_numbers, numbered_numbers,
                   town_names_blocks, actions, handle, written, allocated,
                   ncalls, trace, hlog, measured, expr>>

\* ActionF.prepare_output of a new block
PrepareOutput(name, shape) ==
    /\ Len(actions) < MaxBlocks
    /\ allocates_number(name) => first_free_id < total_numbers + MaxOverrun
    /\ LET auto == allocates_number(name)
           g == get_free_id(first_free_id, free_numbers)
           exhausted == auto /\ g.raised
           id_number == IF auto THEN g.number ELSE name.num
           duplicate == /\ auto /\ ~g.raised /\ name.kind = "Identifier"
                        /\ name_in_use(name, named_numbers)
           reached == registers(exhausted, duplicate)
           startbit == lowest_available_bit(town_names_blocks, actions)
           packed == assign_parts(shape.parts, 1, startbit)
           over == reached /\ not_enough_bits(packed.startbit)
           styled == reached /\ ~over /\ shape.style_name # NoStyle
           table == IF styled THEN pull_style_names(shape.style_name) ELSE <<>>
           empty == styled /\ Len(table) = 0
           new == ActionF(name, IF auto THEN None ELSE name.num, shape.style_name,
                          shape.parts)
           self == [new EXCEPT
                      !.id_number = id_number,
                      !.parts = IF reached THEN packed.parts ELSE @,
                      !.free_bit = IF reached THEN packed.startbit ELSE @,
                      !.style_names = table]
           outcome == IF exhausted THEN "ResourceExhausted"
                      ELSE IF duplicate THEN "DuplicateDefinition"
                      ELSE IF over THEN "CapacityExceeded"
                      ELSE IF empty THEN "EmptyTranslationSet"
                      ELSE "ok"
       IN /\ first_free_id' = IF auto THEN g.first_free_id ELSE first_free_id
          /\ free_numbers' = IF auto THEN g.free_numbers ELSE free_numbers
          /\ named_numbers' =
                IF reached /\ name.kind = "Identifier"
                THEN (name.value :> id_number) @@ named_numbers
                ELSE named_numbers
          /\ numbered_numbers' =
                IF auto THEN numbered_numbers ELSE numbered_numbers \cup {id_number}
          /\ unsafe_numbers' = IF auto THEN unsafe_numbers ELSE unsafe_numbers \ {id_number}
          /\ actions' = Append(actions, self)
          /\ town_names_blocks' =
                IF reached
                THEN (id_number :> (Len(actions) + 1)) @@ town_names_blocks
                ELSE town_names_blocks
          /\ ncalls' = IF auto THEN ncalls + 1 ELSE ncalls
          /\ allocated' = IF auto /\ ~g.raised THEN Append(allocated, g.number)
                          ELSE allocated
          /\ trace' = Append(trace, [outcome |-> outcome,
                                      startbit |-> IF reached THEN startbit ELSE None,
                                      registered |-> reached])
          /\ result' = outcome
    /\ UNCHANGED <<handle, written, hlog, measured, expr>>

Declare == \E n \in UserIds : DeclareNumbered(n)

BlockNames ==
    {NoName} \cup {Identifier(v) : v \in Names}
    \cup {ConstantNumeric(n) : n \in unsafe_numbers}

\* preparation of the blocks of a script, told apart by their use of random bits
Prepare ==
    \E name \in BlockNames : \E shape \in PlainShapes : PrepareOutput(name, shape)

Next == Declare \/ Prepare

Spec == Init /\ [][Next]_vars

\* the driver writes the next block whose preparation succeeded
NextToWrite == {k \in (written + 1)..Len(actions) : trace[k].outcome = "ok"}

Write ==
    /\ handle.error = ""
    /\ NextToWrite # {}
    /\ LET k == Min(NextToWrite)
       IN /\ handle' = write(actions[k], handle)
          /\ written' = k
          /\ result' = IF handle'.error = "" THEN "ok" ELSE handle'.error
          /\ hlog' = Opened(hlog, handle, handle', Called("write", <<>>, FALSE, FALSE))
    /\ UNCHANGED <<free_numbers, first_free_id, named_numbers, numbered_numbers,
                   town_names_blocks, actions, unsafe_numbers, allocated, ncalls,
                   trace, measured, expr>>

\* preparation and writing of a few blocks, with and without style name
PrepareToWrite ==
    /\ Len(actions) < MaxFrames
    /\ \E name \in BlockNames : \E shape \in Shapes : PrepareOutput(name, shape)

DeclareToWrite == \E n \in WriteUserIds : DeclareNumbered(n)

NextWrite == DeclareToWrite \/ PrepareToWrite \/ Write

SpecWrite == Init /\ [][NextWrite]_vars

\* the driver asks a prepared block, not yet written, for its lengths
Measure ==
    /\ \E k \in (written + 1)..Len(actions) :
          /\ trace[k].outcome = "ok"
          /\ measured' = [block |-> k,
                          styles |-> get_length_styles(actions[k]),
                          parts |-> get_length_parts(actions[k])]
    /\ UNCHANGED <<free_numbers, first_free_id, named_numbers, numbered_numbers,
                   town_names_blocks, actions, unsafe_numbers, handle, written,
                   result, allocated, ncalls, trace, hlog, expr>>

NextLength == PrepareToWrite \/ Measure \/ Write

SpecLength == Init /\ [][NextLength]_vars

\* the handle on its own: its methods called by the actions of a script
InitHandle == \E n \in HandleStartNums : Start(OutputNFO(n), NoExpression)

\* the handle goes to n in a call that may open a frame
FrameCall(n, call) ==
    /\ handle.error = ""
    /\ Len(hlog.frames) < MaxFrames
    /\ handle' = n
    /\ hlog' = Opened(hlog, handle, n, call)
    /\ result' = IF n.error = "" THEN "ok" ELSE n.error
    /\ UNCHANGED <<free_numbers, first_free_id, named_numbers, numbered_numbers,
                   town_names_blocks, actions, unsafe_numbers, written, allocated,
                   ncalls, trace, measured, expr>>

\* the handle goes to n in a call that writes inside a frame
InFrameCall(n, call) ==
    /\ handle.error = ""
    /\ handle' = n
    /\ hlog' = Logged(hlog, call)
    /\ result' = IF n.error = "" THEN "ok" ELSE n.error
    /\ UNCHANGED <<free_numbers, first_free_id, named_numbers, numbered_numbers,
                   town_names_blocks, actions, unsafe_numbers, written, allocated,
                   ncalls, trace, measured, expr>>

StartSprite ==
    \E size \in FrameSizes :
        FrameCall(start_sprite(handle, size, FALSE),
                  Called("start_sprite", <<>>, FALSE, FALSE))

\* the print_string calls made since the last frame was opened
StringsInFrame ==
    IF hlog.frames = <<>> THEN 0
    ELSE Cardinality({i \in hlog.frames[Len(hlog.frames)]..Len(handle.file) :
                         handle.file[i].t \in {"string", "quote"}})

PrintString ==
    /\ StringsInFrame < MaxStrings
    /\ \E value \in Texts : \E final_zero, force_ascii \in BOOLEAN :
          InFrameCall(print_string(handle, value, final_zero, force_ascii),
                      Called("print_string", value, final_zero, force_ascii))

EndSprite ==
    /\ handle.in_sprite
    /\ InFrameCall(end_sprite(handle), Called("end_sprite", <<>>, FALSE, FALSE))

PrintSprite ==
    \E sprite_list \in SpriteLists :
        FrameCall(print_sprite(handle, sprite_list),
                  Called("print_sprite", <<>>, FALSE, FALSE))

PrintEmptyRealsprite ==
    FrameCall(print_empty_realsprite(handle),
              Called("print_empty_realsprite", <<>>, FALSE, FALSE))

PrintNamedFiledata ==
    \E filename \in FileNames :
        FrameCall(print_named_filedata(handle, filename),
                  Called("print_named_filedata", filename, FALSE, FALSE))

NextHandle ==
    \/ StartSprite
    \/ PrintString
    \/ EndSprite
    \/ PrintSprite
    \/ PrintEmptyRealsprite
    \/ PrintNamedFiledata

SpecHandle == InitHandle /\ [][NextHandle]_vars

\* the reduction of one function call
Pending(e, unknown_id_fatal) ==
    [input |-> e, unknown_id_fatal |-> unknown_id_fatal, status |-> "pending",
     output |-> <<>>]

InitReduce ==
    \E call \in Calls \cup DateCalls : \E unknown_id_fatal \in BOOLEAN :
        Start(OutputNFO(0), Pending(call, unknown_id_fatal))

Reduce ==
    /\ expr.status = "pending"
    /\ LET r == reduce(expr.input, id_dicts, expr.unknown_id_fatal)
       IN expr' = [expr EXCEPT !.status = IF r.error = "" THEN "reduced" ELSE r.error,
                               !.output = r.value]
    /\ UNCHANGED <<free_numbers, first_free_id, named_numbers, numbered_numbers,
                   town_names_blocks, actions, unsafe_numbers, handle, written,
                   result, allocated, ncalls, trace, hlog, measured>>

NextReduce == Reduce

SpecReduce == InitReduce /\ [][NextReduce]_vars

\* the frame-emitting operations of a script: blocks written, sprites printed
PrepareFrame ==
    /\ Len(actions) < MaxFrames
    /\ \E shape \in FrameShapes : PrepareOutput(NoName, shape)

WriteFrame == Len(hlog.frames) < MaxFrames /\ Write

NextFrames ==
    \/ PrepareFrame
    \/ WriteFrame
    \/ PrintSprite
    \/ PrintEmptyRealsprite
    \/ PrintNamedFiledata

SpecFrames == Init /\ [][NextFrames]_vars

\* the allocator on its own: calls of get_free_id and user-chosen ids
Reserve == \E n \in AllocUserIds : DeclareNumbered(n)

NextAlloc == AllocateId \/ Reserve

SpecAlloc == Init /\ [][NextAlloc]_vars

----------------------------------------------------------------------------
(* Properties of the id allocator                                          *)

Distinct(seq) ==
    \A i, j \in 1..Len(seq) : i # j => seq[i] # seq[j]

\* C1: from the initial allocator state and with no user-chosen id taken, the
\* first 128 get_free_id calls succeed with pairwise distinct ids in [0,128),
\* and the 129th call and every later one fails with ResourceExhausted.
C1_FirstCallsDistinctThenExhausted ==
    unsafe_numbers = {} =>
        /\ \A i \in 1..Len(allocated) : allocated[i] \in 0..(total_numbers - 1)
        /\ Distinct(allocated)
        /\ ncalls <= total_numbers => Len(allocated) = ncalls
        /\ ncalls > total_numbers =>
              /\ Len(allocated) = total_numbers
              /\ result = "ResourceExhausted"

\* the 130th call was made and failed, no id having been chosen by a user
C1_Witness ==
    /\ unsafe_numbers = {}
    /\ ncalls = total_numbers + 2
    /\ Len(allocated) = total_numbers
    /\ result = "ResourceExhausted"

\* C2: every successful get_free_id call returns the smallest number that is
\* in free_numbers at the moment of the call, and removes it from free_numbers,
\* whatever user-chosen ids were taken from free_numbers before.
C2_ReturnsSmallestFree ==
    [][Len(allocated') = Len(allocated) + 1 =>
          LET number == allocated'[Len(allocated')]
          IN /\ number \in free_numbers
             /\ \A m \in free_numbers : number <= m
             /\ free_numbers' = free_numbers \ {number}]_vars

\* ids 0, 1 and 3 were chosen by a user, the calls returned 2 and then 4
C2_Witness ==
    /\ {0, 1, 3} \subseteq unsafe_numbers
    /\ Len(allocated) >= 2
    /\ allocated[1] = 2
    /\ allocated[2] = 4

----------------------------------------------------------------------------
(* Properties of prepare_output                                            *)

\* the blocks that reached town_names_blocks, by index in actions
Registered == {k \in 1..Len(actions) : trace[k].registered}

EndBit(k) == actions[k].free_bit
StartBit(k) == trace[k].startbit

\* C3: preparing a named block whose name is already in named_numbers fails
\* with DuplicateDefinition; the id allocated for it stays consumed, so that
\* after declaring one name twice exactly 2 ids are consumed, and
\* named_numbers still maps the name to the id of the first block.
C3_DuplicateNameKeepsIds ==
    /\ total_numbers - Cardinality(free_numbers)
         = Len(allocated) + Cardinality(unsafe_numbers \cup numbered_numbers)
    /\ \A k \in 1..Len(actions) :
          LET same == {j \in 1..(k - 1) :
                          actions[j].name = actions[k].name /\ trace[j].registered}
          IN (/\ actions[k].name.kind = "Identifier"
              /\ same # {}
              /\ actions[k].id_number # None) =>
                /\ trace[k].outcome = "DuplicateDefinition"
                /\ actions[k].id_number \notin free_numbers
                /\ actions[k].id_number # actions[Min(same)].id_number
                /\ named_numbers[actions[k].name.value] = actions[Min(same)].id_number
                /\ (k = 2 /\ Len(actions) = 2 /\ unsafe_numbers \cup numbered_numbers = {})
                      => Cardinality(free_numbers) = total_numbers - 2

\* the name "a" was declared twice and nothing else
C3_Witness ==
    /\ Len(actions) = 2
    /\ actions[1].name = Identifier("a")
    /\ actions[2].name = Identifier("a")
    /\ trace[1].outcome = "ok"
    /\ trace[2].outcome = "DuplicateDefinition"
    /\ Len(allocated) = 2

C5_StartBitIsMaxOfEarlierEnds ==
    \A k \in Registered :
        LET earlier == {j \in Registered : j < k}
        IN StartBit(k) = IF earlier = {} THEN 0
                         ELSE Max({EndBit(j) : j \in earlier})

\* the third block starts at bit 2, above the end of the first block
C5_Witness ==
    /\ Registered = {1, 2, 3}
    /\ EndBit(1) = 1
    /\ EndBit(2) = 2
    /\ StartBit(3) = 2

\* C6: preparation fails with CapacityExceeded exactly when the running bit
\* position after all parts are packed is greater than 32.
C6_CapacityExceededExactlyAbove32 ==
    \A k \in 1..Len(actions) :
        trace[k].outcome = "CapacityExceeded"
            <=> (trace[k].registered /\ EndBit(k) > 32)

\* a block ending at bit 32 was prepared, the next one ends at bit 33 and failed
C6_Witness ==
    \E j, k \in Registered :
        /\ EndBit(j) = 32 /\ trace[j].outcome = "ok"
        /\ EndBit(k) = 33 /\ trace[k].outcome = "CapacityExceeded"

\* C7 as claimed: no block held in town_names_blocks has a free_bit above 32,
\* and no block starts above bit 32, also after a failed preparation.
C7_NoRegisteredBlockAbove32 ==
    /\ \A i \in DOMAIN town_names_blocks : EndBit(town_names_blocks[i]) <= 32
    /\ \A k \in Registered : StartBit(k) <= 32

\* C7 amended: a block held in town_names_blocks has a free_bit above 32
\* exactly when its preparation failed with CapacityExceeded, and a block
\* starts above bit 32 only after such a failure.
C7_OnlyFailedBlocksAbove32 ==
    /\ \A i \in DOMAIN town_names_blocks :
          EndBit(town_names_blocks[i]) > 32
              <=> trace[town_names_blocks[i]].outcome = "CapacityExceeded"
    /\ \A k \in Registered :
          StartBit(k) > 32 =>
              \E j \in Registered : j < k /\ trace[j].outcome = "CapacityExceeded"

\* a failed block is in town_names_blocks with free_bit 33 and the block
\* prepared after it starts at bit 33
C7_Witness ==
    \E i \in DOMAIN town_names_blocks :
        /\ EndBit(town_names_blocks[i]) = 33
        /\ \E k \in Registered : k > town_names_blocks[i] /\ StartBit(k) = 33

\* C8: in preparation order the free_bit values never decrease and the bit
\* ranges [start, end) of different blocks do not overlap: a later block
\* starts at or above the end of every earlier block.
C8_RangesMonotoneAndDisjoint ==
    \A k \in Registered :
        /\ StartBit(k) <= EndBit(k)
        /\ \A j \in Registered :
              j < k => (EndBit(j) <= EndBit(k) /\ EndBit(j) <= StartBit(k))

\* three blocks with non-empty ranges
C8_Witness ==
    /\ Registered = {1, 2, 3}
    /\ \A k \in 1..3 : StartBit(k) < EndBit(k)

\* the bits of the first n parts, all parts counted
RECURSIVE AllBits(_, _)
AllBits(parts, n) == IF n = 0 THEN 0 ELSE AllBits(parts, n - 1) + parts[n].num_bits

\* the bits of the first n parts, only parts of several pieces counted
RECURSIVE OwnBits(_, _)
OwnBits(parts, n) ==
    IF n = 0 THEN 0
    ELSE OwnBits(parts, n - 1) + (IF parts[n].pieces > 1 THEN parts[n].num_bits ELSE 0)

\* C9 as claimed: a block with a single part does not advance the bit
\* position, a block with two or more parts advances it after every part by
\* the bits assign_bits returned.
C9_AdvanceDependsOnPartCount ==
    \A k \in Registered :
        LET parts == actions[k].parts
        IN /\ Len(parts) = 1 => EndBit(k) = StartBit(k)
           /\ Len(parts) >= 2 =>
                 /\ EndBit(k) = StartBit(k) + AllBits(parts, Len(parts))
                 /\ \A i \in 1..Len(parts) :
                       parts[i].startbit = StartBit(k) + AllBits(parts, i - 1)

\* C9 amended: the position is advanced after a part, by the bits assign_bits
\* returned, exactly when that part has more than one piece, however many
\* parts the block has; each part is assigned the position reached after the
\* part before it.
C9_AdvanceDependsOnPieceCount ==
    \A k \in Registered :
        LET parts == actions[k].parts
        IN /\ EndBit(k) = StartBit(k) + OwnBits(parts, Len(parts))
           /\ \A i \in 1..Len(parts) :
                 parts[i].startbit = StartBit(k) + OwnBits(parts, i - 1)

\* a block of one part with two pieces advanced the position, a block of two
\* parts with one piece each did not
C9_Witness ==
    \E j, k \in Registered :
        /\ Len(actions[j].parts) = 1 /\ actions[j].parts[1].pieces = 2
        /\ EndBit(j) = StartBit(j) + 1
        /\ Len(actions[k].parts) = 2
        /\ \A i \in 1..2 : actions[k].parts[i].pieces = 1
        /\ EndBit(k) = StartBit(k)

\* C25: a preparation that fails with DuplicateDefinition leaves the blocks
\* registry and the free_bit of every block unchanged: the failing block is
\* not registered and gets no bits, and the start bit the next prepared block
\* will get is what it was before the failing block was prepared.
C25_DuplicateLeavesRegistryUnchanged ==
    [][(/\ Len(trace') = Len(trace) + 1
        /\ trace'[Len(trace')].outcome = "DuplicateDefinition") =>
          LET failed == actions'[Len(actions')]
          IN /\ town_names_blocks' = town_names_blocks
             /\ SubSeq(actions', 1, Len(actions)) = actions
             /\ \A id \in DOMAIN town_names_blocks' :
                   town_names_blocks'[id] # Len(actions')
             /\ failed.free_bit = None
             /\ \A i \in 1..Len(failed.parts) : failed.parts[i].startbit = None
             /\ ~trace'[Len(trace')].registered
             /\ lowest_available_bit(town_names_blocks', actions')
                  = lowest_available_bit(town_names_blocks, actions)]_vars

\* a block that uses one random bit was prepared after a block of the same
\* name using one bit and a failed declaration of that name: it starts at 1
C25_Witness ==
    /\ Len(actions) = 3
    /\ trace[1].outcome = "ok"
    /\ EndBit(1) = 1
    /\ trace[2].outcome = "DuplicateDefinition"
    /\ Len(actions[2].parts) = 1 /\ actions[2].parts[1].pieces = 2
    /\ trace[3].outcome = "ok"
    /\ StartBit(3) = 1
    /\ DOMAIN town_names_blocks = {0, 2}

----------------------------------------------------------------------------
(* Properties of ActionF.write on the output handle                        *)

\* C10: for every prepared block the length declared when its frame is
\* opened equals the number of bytes the handle has counted for the frame
\* when the frame is closed, so the assertion of end_sprite never fails.
C10_DeclaredLengthIsCountedLength ==
    written > 0 =>
        /\ handle.error = ""
        /\ ~handle.in_sprite
        /\ handle.expected_count = handle.byte_count
        /\ handle.expected_count
             = 2 + get_length_styles(actions[written])
                 + get_length_parts(actions[written])

\* a block with a style table holding a non-ascii text was written after a
\* block without style table
C10_Witness ==
    /\ written = 2
    /\ actions[1].style_names = <<>>
    /\ trace[1].outcome = "ok"
    /\ \E i \in 1..Len(actions[2].style_names) :
          ~is_ascii_string(actions[2].style_names[i][2])
    /\ Len(actions[2].parts) >= 1
    /\ handle.byte_count > 10

\* C22: the scan cursor first_free_id never decreases from one operation to
\* the next, and in every state every number below the cursor is absent from
\* free_numbers, so get_free_id skips no free number.
C22_CursorMonotoneNothingFreeBelow ==
    /\ [](\A n \in free_numbers : n >= first_free_id)
    /\ [][first_free_id' >= first_free_id]_vars

\* the cursor went past the user-chosen ids 0, 1 and 3 and the returned 2 and
\* 4, a user-chosen id above it being taken as well
C22_Witness ==
    /\ first_free_id = 5
    /\ allocated = <<2, 4>>
    /\ {0, 1, 3, 127} \subseteq unsafe_numbers
    /\ free_numbers = 5..126

----------------------------------------------------------------------------
(* Properties of the length calculator and of the style table             *)

RECURSIVE SeqSum(_)
SeqSum(s) == IF s = <<>> THEN 0 ELSE Head(s) + SeqSum(Tail(s))

\* the blocks written so far, and the block behind the j-th frame of the file
WrittenBlocks == {k \in 1..written : trace[k].outcome = "ok"}
NthWritten(j) ==
    CHOOSE k \in WrittenBlocks : Cardinality({i \in WrittenBlocks : i <= k}) = j

StyleTableLength(b) ==
    IF b.style_names = <<>> THEN 0
    ELSE SeqSum([i \in 1..Len(b.style_names) |->
                   1 + get_string_size(b.style_names[i][2], TRUE, FALSE).size]) + 1

PartsTableLength(b) ==
    1 + SeqSum([i \in 1..Len(b.parts) |-> part_get_length(b.parts[i])])

LangIds(b) == [i \in 1..Len(b.style_names) |-> b.style_names[i][1]]

Prepared == {k \in 1..Len(actions) : trace[k].outcome = "ok"}

\* C13: after a successful preparation the style table of a block with a
\* style name is sorted ascending by language id and holds an entry for
\* 0x7F, the table of the style translated in 1 and 3 lists 1, 3, 0x7F in
\* that order, and the table of a block without style name is empty.
C13_StyleTableSortedWithDefault ==
    \A k \in Prepared :
        LET b == actions[k]
            ids == LangIds(b)
        IN /\ b.style_name = NoStyle => b.style_names = <<>>
           /\ b.style_name # NoStyle =>
                 /\ \A i, j \in 1..Len(ids) : i < j => ids[i] <= ids[j]
                 /\ \E i \in 1..Len(ids) : ids[i] = DefaultLang
           /\ {get_translations(b.style_name)[i] :
                    i \in 1..Len(get_translations(b.style_name))} = {1, 3}
                 => ids = <<1, 3, DefaultLang>>

\* a block translated in 1 and 3, enumerated as 3, 1, was prepared after a
\* block without style name
C13_Witness ==
    /\ Len(actions) = 2
    /\ Prepared = {1, 2}
    /\ actions[1].style_name = NoStyle
    /\ get_translations(actions[2].style_name) = <<3, 1>>
    /\ LangIds(actions[2]) = <<1, 3, DefaultLang>>

\* C14: the style table built by prepare_output holds at most one entry per
\* language id, whatever set of language ids the translation service
\* enumerates for the style name, a set holding 0x7F included.
C14_AtMostOneEntryPerLanguage ==
    \A k \in Prepared :
        LET ids == LangIds(actions[k])
        IN \A i, j \in 1..Len(ids) : ids[i] = ids[j] => i = j

\* the calls of prepare_output on a block with a style name that got as far
\* as building the style table
BuiltTable ==
    {k \in 1..Len(actions) :
        /\ actions[k].style_name # NoStyle
        /\ trace[k].outcome \in {"ok", "EmptyTranslationSet"}}

\* C15 as stated: preparation of a block with a style name fails with
\* EmptyTranslationSet when the style table has no entry, and it does so when
\* the translation service enumerates no language id for the style name.
C15_NoLanguagesFailsPreparation ==
    \A k \in BuiltTable :
        /\ actions[k].style_names = <<>> => trace[k].outcome = "EmptyTranslationSet"
        /\ get_translations(actions[k].style_name) = <<>>
              => trace[k].outcome = "EmptyTranslationSet"

\* C15: the test for a style table without entries comes after the default
\* text was appended under 0x7F, so no preparation fails with
\* EmptyTranslationSet; when the translation service enumerates no language
\* id the table holds the 0x7F entry alone and the preparation succeeds.
C15_DefaultEntryPreventsEmptyTable ==
    /\ \A k \in 1..Len(actions) : trace[k].outcome # "EmptyTranslationSet"
    /\ \A k \in BuiltTable :
          /\ Len(actions[k].style_names) >= 1
          /\ get_translations(actions[k].style_name) = <<>>
                => LangIds(actions[k]) = <<DefaultLang>>

\* a block whose style name has no translation was prepared successfully
C15_Witness ==
    \E k \in BuiltTable :
        /\ get_translations(actions[k].style_name) = <<>>
        /\ trace[k].outcome = "ok"
        /\ LangIds(actions[k]) = <<DefaultLang>>

\* C16: the identity byte of a written block has its high bit 0x80 set
\* exactly when the block's style table is not empty, and its low 7 bits are
\* the block's id, for every id in [0, 128).
C16_IdentityByteFlagsStyleTable ==
    /\ \A j \in 1..Len(hlog.frames) :
          LET b == actions[NthWritten(j)]
              tok == handle.file[hlog.frames[j] + 4]
          IN /\ handle.file[hlog.frames[j] + 3] = Tok("bytex", ActionType, <<>>)
             /\ tok.t = "bytex"
             /\ tok.n \in 0..255
             /\ tok.n >= StyleFlag <=> Len(b.style_names) > 0
             /\ tok.n % StyleFlag = b.id_number
    /\ \A n \in 0..(total_numbers - 1) :
          /\ or_style_flag(n) = n + StyleFlag
          /\ byte_value(or_style_flag(n)) = n + StyleFlag

\* the block of user-chosen id 127 was written with a style table, after an
\* unstyled block of id 0
C16_Witness ==
    /\ Len(hlog.frames) = 2
    /\ actions[NthWritten(1)].style_names = <<>>
    /\ handle.file[hlog.frames[1] + 4].n = 0
    /\ actions[NthWritten(2)].id_number = 127
    /\ handle.file[hlog.frames[2] + 4].n = 255

\* C11: the size declared when the frame of a block is opened is 2 plus the
\* length of the style table plus the length of the parts table, where the
\* style table counts 0 when empty and otherwise one byte and the encoded
\* text of every entry plus one terminating byte, and the parts table counts
\* one byte plus the length of every part.
C11_DeclaredSizeIsTwoPlusTables ==
    \A j \in 1..Len(hlog.frames) :
        LET b == actions[NthWritten(j)]
            at == hlog.frames[j]
        IN /\ handle.file[at + 1] = Tok("raw", 0, <<42>>)
           /\ handle.file[at + 2]
                = Tok("decimal", 2 + StyleTableLength(b) + PartsTableLength(b), <<>>)

\* the frame of a block without style name declares 2 + 0 + (1 + 5) bytes and
\* the frame of a block with the translations 1 and 3 declares
\* 2 + ((1 + 3) + (1 + 6) + (1 + 2) + 1) + (1 + 5) bytes
C11_Witness ==
    /\ Len(hlog.frames) = 2
    /\ actions[NthWritten(1)].style_name = NoStyle
    /\ handle.file[hlog.frames[1] + 2].n = 8
    /\ actions[NthWritten(2)].style_name = "STR_TWO"
    /\ handle.file[hlog.frames[2] + 2].n = 23

RECURSIVE Concat(_)
Concat(seqs) == IF seqs = <<>> THEN <<>> ELSE Head(seqs) \o Concat(Tail(seqs))

\* the tokens of the j-th frame of the file, and those that are no line breaks
FrameTokens(j) ==
    SubSeq(handle.file, hlog.frames[j],
           IF j < Len(hlog.frames) THEN hlog.frames[j + 1] - 1 ELSE Len(handle.file))

IsItem(tok) == tok.t # "newline"

\* what a part writes, on a handle of its own inside a frame
PartItems(part) == part_write([OutputNFO(0) EXCEPT !.in_sprite = TRUE], part).file

\* the items of the frame of block b opened with record index index, in the
\* order of the WRITE phase
ExpectedItems(b, index) ==
    LET styles == b.style_names
        entries == [i \in 1..Len(styles) |->
                      <<Tok("bytex", styles[i][1], <<>>),
                        Tok("string",
                            IF \A c \in 1..Len(styles[i][2]) : styles[i][2][c] < 128
                            THEN 0 ELSE 1,
                            styles[i][2]),
                        Tok("bytex", 0, <<>>)>>]
        parts == [i \in 1..Len(b.parts) |-> PartItems(b.parts[i])]
    IN <<Tok("decimal", index, <<>>), Tok("raw", 0, <<42>>),
         Tok("decimal", 2 + StyleTableLength(b) + PartsTableLength(b), <<>>),
         Tok("bytex", ActionType, <<>>),
         Tok("bytex", b.id_number + (IF styles = <<>> THEN 0 ELSE StyleFlag), <<>>)>>
       \o Concat(entries)
       \o (IF styles = <<>> THEN <<>> ELSE <<Tok("bytex", 0, <<>>)>>)
       \o <<Tok("bytex", Len(b.parts), <<>>)>>
       \o Concat(parts)

\* C23: the WRITE phase of a block emits in this order the frame open with
\* the declared length, the tag 0x0F, the identity byte, the style table
\* (per entry the language id and the zero-terminated text, then one zero
\* byte; nothing when the table is empty), the byte counting the parts, the
\* parts in list order, and the frame close.
C23_WriteOrder ==
    \A j \in 1..Len(hlog.frames) :
        LET b == actions[NthWritten(j)]
            toks == FrameTokens(j)
        IN /\ SelectSeq(toks, IsItem) = ExpectedItems(b, hlog.start + j - 1)
           /\ toks[Len(toks)] = Tok("newline", 0, <<>>)
           /\ ~handle.in_sprite
           /\ handle.error = ""

\* a block with a style table of three entries and one part was written: 5
\* items of header, 3 per entry, the terminator, the count and 5 of the part
C23_Witness ==
    /\ Len(hlog.frames) = 2
    /\ Len(actions[NthWritten(2)].style_names) = 3
    /\ Len(actions[NthWritten(2)].parts) = 1
    /\ Len(SelectSeq(FrameTokens(2), IsItem)) = 21
    /\ Len(actions[NthWritten(1)].parts) = 2
    /\ actions[NthWritten(1)].style_names = <<>>

----------------------------------------------------------------------------
(* Properties of the output handle on its own                              *)

\* C17: whatever frames are opened on a handle created with start index s
\* (sized frames of start_sprite, print_sprite, print_empty_realsprite,
\* print_named_filedata), the k-th frame has the record index s + k - 1 as
\* its first token and the sprite counter is s plus the number of frames
\* opened, so no record index is repeated or decreases.
C17_RecordIndexCountsFrames ==
    /\ handle.sprite_num = hlog.start + Len(hlog.frames)
    /\ \A k \in 1..Len(hlog.frames) :
          handle.file[hlog.frames[k]] = Tok("decimal", hlog.start + k - 1, <<>>)

\* on a handle created with start index 5, a sized frame was closed and a
\* frame of another kind was opened after it
C17_Witness ==
    /\ hlog.start = 5
    /\ Len(hlog.frames) = 2
    /\ handle.file[hlog.frames[1] + 1] = Tok("raw", 0, <<42>>)
    /\ handle.file[hlog.frames[2]] = Tok("decimal", 6, <<>>)
    /\ hlog.call.op \in {"print_sprite", "print_named_filedata"}
    /\ handle.sprite_num = 7
    /\ handle.error = ""

\* C18: inside a frame, print_string of a text that is not ascii fails with
\* the ascii error (EncodingViolation) when the call demands ascii; in every
\* other call it succeeds, writes one string with exactly one marker when the
\* text is not ascii and none when it is, and raises the byte count by the
\* encoded size of the text plus one for the terminating zero when
\* final_zero is set, the zero being counted once.
C18_PrintStringCountsEncodedSize ==
    [][(hlog'.call.op = "print_string" /\ handle' # handle /\ handle.in_sprite) =>
          LET c == hlog'.call
              old == Len(handle.file)
              ascii == \A i \in 1..Len(c.text) : c.text[i] < 128
          IN IF ~ascii /\ c.force_ascii
             THEN /\ handle'.error = "ScriptError: ascii"
                  /\ handle'.byte_count = handle.byte_count
             ELSE /\ handle'.error = ""
                  /\ handle'.file[old + 1]
                       = Tok("string", IF ascii THEN 0 ELSE 1, c.text)
                  /\ Len(handle'.file) = old + (IF c.final_zero THEN 2 ELSE 1)
                  /\ c.final_zero => handle'.file[old + 2] = Tok("bytex", 0, <<>>)
                  /\ handle'.byte_count
                       = handle.byte_count
                         + get_string_size(c.text, FALSE, FALSE).size
                         + (IF c.final_zero THEN 1 ELSE 0)]_vars

\* a text that is not ascii was printed with its terminating zero by a call
\* that did not demand ascii: 2 bytes of marker, 3 of text, 1 of zero
C18_Witness ==
    /\ hlog.call = Called("print_string", Uni_txt, TRUE, FALSE)
    /\ handle.in_sprite
    /\ handle.error = ""
    /\ handle.byte_count = 6

----------------------------------------------------------------------------
(* Properties of the reduction of function calls                           *)

Reduced == expr.status \notin {"none", "pending"}

UnknownIdErrors == {"Unrecognized identifier", "is not defined as a function"}

\* C19: FunctionCall.reduce called with unknown_id_fatal false never fails
\* because an identifier is unknown, also for a builtin whose parameters hold
\* unknown identifiers, and for a function name that is neither a builtin nor
\* defined it returns the call with its parameters reduced; called with
\* unknown_id_fatal true it fails for such a function name.
C19_UnknownIdentifierNotFatal ==
    Reduced =>
        LET name == expr.input.value
            undefined == name \notin function_table /\ name \notin DOMAIN id_dicts
            params == reduce_all(expr.input.params, id_dicts, expr.unknown_id_fatal)
        IN /\ ~expr.unknown_id_fatal =>
                 /\ expr.status \notin UnknownIdErrors
                 /\ undefined =>
                       /\ expr.status = "reduced"
                       /\ expr.output = FunctionCall(name, params.value)
           /\ expr.unknown_id_fatal /\ undefined /\ params.error = ""
                 => expr.status = "is not defined as a function"

\* C20: the text of the status check returned by grf_current_status,
\* grf_future_status and grf_order_behind called with one or two arguments
\* names the first argument, with and without the mask argument.
C20_StatusTextNamesFirstArgument ==
    (/\ Reduced
     /\ expr.input.value \in {"grf_current_status", "grf_future_status",
                               "grf_order_behind"}
     /\ Len(expr.input.params) \in {1, 2}
     /\ expr.status = "reduced")
        => /\ expr.output.kind = "SpecialCheck"
           /\ expr.output.to_string.name = expr.input.value
           /\ expr.output.to_string.label = expr.input.params[1]
           /\ expr.output.to_string.mask = expr.output.mask
           /\ Len(expr.input.params) = 1 <=> expr.output.mask = None

\* the days of the months before a month, summed month by month
DaysBefore(month) ==
    LET days == <<31, 28, 31, 30, 31, 30, 31, 31, 30, 31, 30, 31>>
    IN SeqSum(SubSeq(days, 1, month - 1))

\* C21: day_of_year(month, day) on a constant month in 1..12 returns, for a
\* day in 1..(days of that month, February having 28), the days of all the
\* months before plus the day, and rejects any other day with an error.
C21_DayOfYearCountsDays ==
    (/\ Reduced
     /\ expr.input \in DateCalls
     /\ expr.input.params[1].num \in 1..12)
        => LET month == expr.input.params[1].num
               day == expr.input.params[2].num
               days == <<31, 28, 31, 30, 31, 30, 31, 31, 30, 31, 30, 31>>
           IN IF day \in 1..days[month]
              THEN /\ expr.status = "reduced"
                   /\ expr.output = ConstantNumeric(DaysBefore(month) + day)
              ELSE expr.status \notin {"reduced", "pending", "none"}

----------------------------------------------------------------------------
(* Properties of the frame-emitting operations                             *)

\* C24: frames are never nested and never left open: every frame-emitting
\* operation (ActionF.write, print_sprite, print_empty_realsprite,
\* print_named_filedata) opens exactly one frame and closes it before it
\* returns, so between the operations the handle is outside a frame, and no
\* assertion fails: print_string and print_decimal run inside a frame only
\* and no frame is opened inside another.
C24_FramesClosedNeverNested ==
    /\ [](~handle.in_sprite /\ handle.error = "")
    /\ [][handle' # handle =>
             /\ Len(hlog'.frames) = Len(hlog.frames) + 1
             /\ hlog'.frames[Len(hlog'.frames)] = Len(handle.file) + 1
             /\ handle'.sprite_num = handle.sprite_num + 1
             /\ handle'.file[Len(handle'.file)] = Tok("newline", 0, <<>>)]_vars

\* a sprite was printed after a block was written
C24_Witness ==
    /\ Len(hlog.frames) = 2
    /\ written = 1
    /\ hlog.call.op = "print_sprite"
    /\ ~handle.in_sprite
    /\ handle.sprite_num = 2

====
